---------------------------- MODULE Spec2Model ----------------------------
(***************************************************************************)
(* State-machine model of class SnakeGame (src/snake.py): the constructor, *)
(* place_food, move and change_direction, called in any order by a client. *)
(* Cells are pairs <<row, column>>; the snake is a sequence, head first.   *)
(***************************************************************************)
EXTENDS Integers, Sequences, FiniteSets

\* Largest grid the constructor is called with (the grid is at least 3x3).
MaxHeight == 4
MaxWidth == 5

\* Largest grid main builds the game on in SpecLoop.
LoopMaxHeight == 4
LoopMaxWidth == 4

\* Largest number of food cells eaten in SpecSpeed.
MaxEaten == 30

\* Program constants of src/snake.py.
InitialBaseSpeed == 120
SpeedFloor == 40
SpeedStep == 3
FoodReward == 10

\* curses.KEY_UP .. curses.KEY_RIGHT, and a key that is none of the four.
KEY_UP == "KEY_UP"
KEY_DOWN == "KEY_DOWN"
KEY_LEFT == "KEY_LEFT"
KEY_RIGHT == "KEY_RIGHT"
KEY_OTHER == "KEY_OTHER"
Directions == {KEY_UP, KEY_DOWN, KEY_LEFT, KEY_RIGHT}
Requests == Directions \cup {KEY_OTHER}

\* main, line 209: ord('q'). KEY_OTHER also stands for getch's -1 (no key).
KEY_QUIT == "q"
Pressed == Requests \cup {KEY_QUIT}

\* main, line 104: stdscr.timeout(50), the longest wait of getch, in ms.
PollTimeout == 50

\* Time one pass of the loop takes, in ms: getch returns early on a key or
\* times out.
FrameTimes == {PollTimeout \div 5, PollTimeout}

\* Python's None: as a cell (self.food = None) and as a key (no key).
None == <<>>
NoKey == "None"

VARIABLES
    height, width,        \* self.height, self.width
    snake,                \* self.snake: sequence of cells, head first
    direction,            \* self.direction
    food,                 \* self.food: a cell or None
    score,                \* self.score
    game_over,            \* self.game_over
    base_speed,           \* self.base_speed
    direction_changed,    \* self.direction_changed (the debounce flag)
    call,                 \* the last call made, the branch it returned from
    tick_direction,       \* history: direction when the last move (or __init__) returned
    first_valid,          \* history: first request since then that passed the test of line 95 against the direction then current, or NoKey
    changes,              \* history: number of requests since then that assigned a different direction
    pc,                   \* main: where the game loop stands ("input", "clock", "over")
    elapsed               \* main: current_time - last_move_time at the last reading of the clock, in ms

game == <<height, width, snake, direction, food, score, game_over, base_speed,
          direction_changed>>
vars == <<height, width, snake, direction, food, score, game_over, base_speed,
          direction_changed, call, tick_direction, first_valid, changes, pc,
          elapsed>>
loop == <<pc, elapsed>>

Cells(s) == {s[i] : i \in 1..Len(s)}

\* Mutant of empty_cells: the snake is not looked at.
empty_cells_any(h, w, s) == (1..(h - 2)) \X (1..(w - 2))

\* place_food, lines 28-32: the interior cells not in the snake s.
empty_cells(h, w, s) ==
    {c \in (1..(h - 2)) \X (1..(w - 2)) : c \notin Cells(s)}

\* place_food, lines 33-34, run with self.snake = s: random.choice over the
\* empty cells, and no assignment at all when there is none.
place_food(h, w, s) ==
    IF empty_cells(h, w, s) # {}
    THEN food' \in empty_cells(h, w, s)
    ELSE food' = food

\* __init__, lines 14-24, called with (h, w); place_food runs with food =
\* None. main, line 125: last_move_time = time.time() before the first frame.
construct(h, w) ==
    /\ height = h
    /\ width = w
    /\ snake = << <<height \div 2, width \div 2>> >>
    /\ direction = KEY_RIGHT
    /\ food \in (IF empty_cells(height, width, snake) # {}
                 THEN empty_cells(height, width, snake)
                 ELSE {None})
    /\ score = 0
    /\ game_over = FALSE
    /\ base_speed = InitialBaseSpeed
    /\ direction_changed = FALSE
    /\ call = [op |-> "__init__", key |-> NoKey, branch |-> "done", running |-> TRUE]
    /\ tick_direction = KEY_RIGHT
    /\ first_valid = NoKey
    /\ changes = 0
    /\ pc = "input"
    /\ elapsed = 0

\* A game on a grid of at least 3x3.
Init == \E h \in 3..MaxHeight, w \in 3..MaxWidth : construct(h, w)

\* A game on any grid, those without an interior included.
InitAnyDims == \E h \in 1..MaxHeight, w \in 1..MaxWidth : construct(h, w)

\* Mutant of new_head_of: Up and Down exchanged.
new_head_of_flipped(head, d) ==
    CASE d = KEY_UP -> <<head[1] + 1, head[2]>>
      [] d = KEY_DOWN -> <<head[1] - 1, head[2]>>
      [] d = KEY_LEFT -> <<head[1], head[2] - 1>>
      [] d = KEY_RIGHT -> <<head[1], head[2] + 1>>

\* move, lines 47-58: the head shifted one cell in direction d.
new_head_of(head, d) ==
    CASE d = KEY_UP -> <<head[1] - 1, head[2]>>
      [] d = KEY_DOWN -> <<head[1] + 1, head[2]>>
      [] d = KEY_LEFT -> <<head[1], head[2] - 1>>
      [] d = KEY_RIGHT -> <<head[1], head[2] + 1>>

\* Mutant of wall_collision: > for >= at the far walls.
wall_collision_off_by_one(c) ==
    \/ c[1] <= 0
    \/ c[1] > height - 1
    \/ c[2] <= 0
    \/ c[2] > width - 1

\* move, lines 61-62.
wall_collision(c) ==
    \/ c[1] <= 0
    \/ c[1] >= height - 1
    \/ c[2] <= 0
    \/ c[2] >= width - 1

\* move, lines 78-79.
speed_up(b) == IF b > SpeedFloor THEN b - SpeedStep ELSE b

\* Mutant of pop: the tail is never removed.
pop_nothing(s) == s

\* move, line 81: list.pop() of the last cell.
pop(s) == SubSeq(s, 1, Len(s) - 1)

\* Mutant of self_collision: the test is missing.
self_collision_never(c) == FALSE

\* Mutant of self_collision: the test made against the body without its tail.
self_collision_after_pop(c) == c \in Cells(pop(snake))

\* move, line 67: new_head in self.snake, before the insert and the pop.
self_collision(c) == c \in Cells(snake)

\* The call made and the branch it returns from; running: game_over was false
\* when it was made.
Returned(op, key, branch) ==
    call' = [op |-> op, key |-> key, branch |-> branch, running |-> ~game_over]

\* move, lines 42-81.
move ==
    LET new_head == new_head_of(snake[1], direction)
        grown == <<new_head>> \o snake
    IN  /\ direction_changed' = FALSE
        /\ tick_direction' = direction
        /\ first_valid' = NoKey
        /\ changes' = 0
        /\ UNCHANGED <<height, width, direction>>
        /\ IF direction \notin Directions
           THEN /\ Returned("move", NoKey, "no_direction")
                /\ UNCHANGED <<snake, food, score, game_over, base_speed>>
           ELSE IF wall_collision(new_head)
           THEN /\ game_over' = TRUE
                /\ Returned("move", NoKey, "wall")
                /\ UNCHANGED <<snake, food, score, base_speed>>
           ELSE IF self_collision(new_head)
           THEN /\ game_over' = TRUE
                /\ Returned("move", NoKey, "self")
                /\ UNCHANGED <<snake, food, score, base_speed>>
           ELSE IF new_head = food
           THEN /\ snake' = grown
                /\ score' = score + FoodReward
                /\ place_food(height, width, grown)
                /\ base_speed' = speed_up(base_speed)
                /\ Returned("move", NoKey, "ate")
                /\ UNCHANGED game_over
           ELSE /\ snake' = pop(grown)
                /\ Returned("move", NoKey, "moved")
                /\ UNCHANGED <<food, score, game_over, base_speed>>

\* change_direction, lines 89-94: the table of opposites.
opposites(d) ==
    CASE d = KEY_UP -> KEY_DOWN
      [] d = KEY_DOWN -> KEY_UP
      [] d = KEY_LEFT -> KEY_RIGHT
      [] d = KEY_RIGHT -> KEY_LEFT
      [] OTHER -> NoKey

\* Mutant of debounced: the flag is never consulted.
debounced_never == FALSE

\* change_direction, line 86: a change was already made since the last move.
debounced == direction_changed

\* Mutant of valid_turn: the reversal test is missing.
valid_turn_any(new_direction) == new_direction \in Directions

\* change_direction, line 95.
valid_turn(new_direction) ==
    /\ new_direction \in Directions
    /\ new_direction # opposites(direction)

\* Mutant of change_direction: an accepted turn also restarts a finished game.
change_direction_restarts(new_direction) ==
    /\ UNCHANGED <<height, width, snake, food, score, base_speed, tick_direction>>
    /\ first_valid' = IF first_valid = NoKey /\ new_direction \in Directions
                         /\ new_direction # opposites(direction)
                      THEN new_direction ELSE first_valid
    /\ IF debounced
       THEN /\ Returned("change_direction", new_direction, "debounced")
            /\ UNCHANGED <<direction, direction_changed, changes, game_over>>
       ELSE IF valid_turn(new_direction)
       THEN /\ direction' = new_direction
            /\ direction_changed' = TRUE
            /\ game_over' = FALSE
            /\ changes' = changes + (IF new_direction # direction THEN 1 ELSE 0)
            /\ Returned("change_direction", new_direction, "accepted")
       ELSE /\ Returned("change_direction", new_direction, "ignored")
            /\ UNCHANGED <<direction, direction_changed, changes, game_over>>

\* change_direction, lines 83-97.
change_direction(new_direction) ==
    /\ UNCHANGED <<height, width, snake, food, score, game_over, base_speed,
                   tick_direction>>
    /\ first_valid' = IF first_valid = NoKey /\ new_direction \in Directions
                         /\ new_direction # opposites(direction)
                      THEN new_direction ELSE first_valid
    /\ IF debounced
       THEN /\ Returned("change_direction", new_direction, "debounced")
            /\ UNCHANGED <<direction, direction_changed, changes>>
       ELSE IF valid_turn(new_direction)
       THEN /\ direction' = new_direction
            /\ direction_changed' = TRUE
            /\ changes' = changes + (IF new_direction # direction THEN 1 ELSE 0)
            /\ Returned("change_direction", new_direction, "accepted")
       ELSE /\ Returned("change_direction", new_direction, "ignored")
            /\ UNCHANGED <<direction, direction_changed, changes>>

\* The methods of SnakeGame called by a client, in any order.
Move == move /\ UNCHANGED loop

ChangeDirection ==
    \E new_direction \in Requests :
        change_direction(new_direction) /\ UNCHANGED loop

Next == Move \/ ChangeDirection

Spec == Init /\ [][Next]_vars

SpecAnyDims == InitAnyDims /\ [][Next]_vars

\* move, lines 45 and 74-79, in a tick whose new head is the food cell, on a
\* grid too large to be enumerated: the counters of the food branch alone
\* (score, base_speed); the cells of the body and of the food are not followed.
eat ==
    /\ score < FoodReward * MaxEaten
    /\ direction_changed' = FALSE
    /\ tick_direction' = direction
    /\ first_valid' = NoKey
    /\ changes' = 0
    /\ score' = score + FoodReward
    /\ base_speed' = speed_up(base_speed)
    /\ Returned("move", NoKey, "ate")
    /\ UNCHANGED <<height, width, snake, direction, food, game_over>>

Eat == eat /\ UNCHANGED loop

NextSpeed == Eat \/ ChangeDirection

\* Mutant of get_current_speed: no factor for vertical moves.
get_current_speed_flat == base_speed * 10

\* get_current_speed, lines 36-40, in tenths of a millisecond (base_speed *
\* 1.8 is base_speed * 18 tenths).
get_current_speed ==
    IF direction \in {KEY_UP, KEY_DOWN}
    THEN base_speed * 18
    ELSE base_speed * 10

history == <<tick_direction, first_valid, changes>>

\* main, line 127: the loop ends when game_over is true.
game_over_exit ==
    /\ pc = "input"
    /\ game_over
    /\ pc' = "over"
    /\ Returned("main", NoKey, "game_over")
    /\ UNCHANGED <<game, history, elapsed>>

\* main, lines 127-213: one pass of the loop up to the handling of the key;
\* dt is the time the pass takes until the clock is read at line 215.
handle_input(key, dt) ==
    /\ pc = "input"
    /\ ~game_over
    /\ IF key = KEY_QUIT
       THEN /\ pc' = "over"
            /\ Returned("getch", key, "quit")
            /\ UNCHANGED <<game, history, elapsed>>
       ELSE /\ pc' = "clock"
            /\ elapsed' = elapsed + dt
            /\ IF key \in Directions
               THEN change_direction(key)
               ELSE /\ Returned("getch", key, "no_request")
                    /\ UNCHANGED <<game, history>>

\* main, lines 215-218: the clock is read, and move runs when the time since
\* the last move has reached the current speed.
check_clock ==
    /\ pc = "clock"
    /\ pc' = "input"
    /\ IF elapsed * 10 >= get_current_speed
       THEN /\ move
            /\ elapsed' = 0
       ELSE /\ Returned("clock", NoKey, "not_due")
            /\ UNCHANGED <<game, history, elapsed>>

GameOverExit == game_over_exit

HandleInput == \E key \in Pressed, dt \in FrameTimes : handle_input(key, dt)

CheckClock == check_clock

NextLoop == GameOverExit \/ HandleInput \/ CheckClock

\* main, lines 115-125: the game is built on a grid cut from the terminal's
\* size, and last_move_time is set.
InitLoop == \E h \in 3..LoopMaxHeight, w \in 3..LoopMaxWidth : construct(h, w)

\* The game loop of main.
SpecLoop == InitLoop /\ [][NextLoop]_vars

\* The speed counter over a run of food-consumption ticks.
SpecSpeed == Init /\ [][NextSpeed]_vars

-----------------------------------------------------------------------------
(* Vocabulary of the properties, stated from the grid and not from move.   *)

\* Unit vector of a direction: Up = row-1, Down = row+1, Left = column-1,
\* Right = column+1.
UnitVector(d) ==
    CASE d = KEY_UP -> <<-1, 0>>
      [] d = KEY_DOWN -> <<1, 0>>
      [] d = KEY_LEFT -> <<0, -1>>
      [] d = KEY_RIGHT -> <<0, 1>>

Shifted(c, d) == <<c[1] + UnitVector(d)[1], c[2] + UnitVector(d)[2]>>

\* Interior bounds: rows 1..height-2, columns 1..width-2.
InInterior(c) ==
    /\ 1 <= c[1] /\ c[1] <= height - 2
    /\ 1 <= c[2] /\ c[2] <= width - 2

FreeCells == {c \in (1..height) \X (1..width) : InInterior(c) /\ c \notin Cells(snake)}

\* The step is a call of move / of change_direction.
IsTick == call'.op = "move"
IsRequest == call'.op = "change_direction"

\* The head a tick computes in the state it starts from.
TickHead == Shifted(snake[1], direction)

\* C1: whenever food is set, the food cell is not a cell of the snake body.
FoodNotInSnake == food # None => food \notin Cells(snake)

\* C2: once game_over is true, a tick leaves snake, food, score, base_speed,
\* direction, the debounce flag and game_over unchanged.
TickAfterGameOverIsNoOp == [][(game_over /\ IsTick) => UNCHANGED game]_vars

\* C3: once game_over is true, change_direction leaves direction, the debounce
\* flag and every other field unchanged.
RequestAfterGameOverIsNoOp == [][(game_over /\ IsRequest) => UNCHANGED game]_vars

\* C4: between two consecutive ticks at most one request changes direction, and
\* the direction is that of the first request that was valid and not the
\* opposite of the direction current when it came (the direction of the last
\* tick when there was none); the debounce flag is clear when a move returns.
AtMostOneChangePerTick ==
    /\ changes <= 1
    /\ direction = (IF first_valid = NoKey THEN tick_direction ELSE first_valid)
    /\ call.op = "move" => ~direction_changed

\* C4 witness: after an accepted turn, a second request for yet another valid
\* direction has been dropped.
SecondRequestDropped ==
    /\ call.op = "change_direction"
    /\ call.branch = "debounced"
    /\ call.key \in Directions \ {direction, opposites(direction)}
    /\ changes = 1
    /\ direction # tick_direction
    /\ ~game_over

\* C5: a request for the opposite of the current direction leaves direction
\* and the debounce flag as they were.
OppositeRequestIgnored ==
    [][(IsRequest /\ call'.key = opposites(direction))
         => (direction' = direction /\ direction_changed' = direction_changed)]_vars

\* C5 witness: the opposite was requested with the flag clear, and it still is.
OppositeRequestSeen ==
    /\ call.op = "change_direction"
    /\ call.key = opposites(direction)
    /\ call.branch = "ignored"
    /\ ~direction_changed
    /\ ~game_over

\* C6: a tick in a running state whose new head is outside the interior sets
\* game_over and leaves snake, food, score and base_speed unchanged.
WallTickEndsGame ==
    [][(IsTick /\ ~game_over /\ ~InInterior(TickHead))
         => (game_over' /\ snake' = snake /\ food' = food /\ score' = score
             /\ base_speed' = base_speed)]_vars

\* C6 witness: a snake of two cells or more with its head in row 1 has ticked
\* Up in a running state and the game is over.
WallHitGoingUp ==
    /\ call.op = "move" /\ call.branch = "wall" /\ call.running
    /\ game_over
    /\ tick_direction = KEY_UP
    /\ snake[1][1] = 1
    /\ Len(snake) >= 2

\* C7: a tick in a running state whose new head is in the interior and is a
\* cell of the body as it is before the tick, the tail included, sets
\* game_over and leaves snake, food and score unchanged.
SelfTickEndsGame ==
    [][(IsTick /\ ~game_over /\ InInterior(TickHead) /\ TickHead \in Cells(snake))
         => (game_over' /\ snake' = snake /\ food' = food /\ score' = score)]_vars

\* C7 witness: a tick in a running state ran into the tail cell itself.
TailHit ==
    /\ call.op = "move" /\ call.branch = "self" /\ call.running
    /\ game_over
    /\ Shifted(snake[1], tick_direction) = snake[Len(snake)]

\* C8: a tick after which the game is not over keeps the length when the new
\* head is not the food cell and adds exactly one when it is; no tick shortens
\* the body or adds more than one cell.
LengthStep ==
    [][IsTick =>
         /\ ~game_over' =>
              Len(snake') = Len(snake) + (IF TickHead = food THEN 1 ELSE 0)
         /\ Len(snake') \in {Len(snake), Len(snake) + 1}]_vars

\* C8 witness: a tick has eaten food and the body is three cells or more.
GrewByEating ==
    /\ call.op = "move" /\ call.branch = "ate"
    /\ ~game_over
    /\ Len(snake) >= 3
    /\ score = FoodReward * (Len(snake) - 1)

\* C9: after a tick that leaves the game running, the head is the old head
\* shifted by the unit vector of the direction, every other cell is the old
\* body one position back, and the old tail is dropped exactly when the new
\* head is not the food cell.
BodyShift ==
    [][(IsTick /\ ~game_over') =>
         /\ snake'[1] = Shifted(snake[1], direction)
         /\ \A i \in 1..(Len(snake') - 1) : snake'[i + 1] = snake[i]
         /\ (Len(snake') = Len(snake)) <=> (TickHead # food)
         /\ (Len(snake') = Len(snake) + 1) <=> (TickHead = food)]_vars

\* C9 witness: a tick that ate nothing has moved a body of three cells or
\* more around a corner.
MovedAroundCorner ==
    /\ call.op = "move" /\ call.branch = "moved"
    /\ ~game_over
    /\ Len(snake) >= 3
    /\ snake[1][1] # snake[3][1]
    /\ snake[1][2] # snake[3][2]

\* C10: after place_food has run (in __init__, or in a tick that ate) with no
\* interior cell free of the snake, food is None.
NoFreeCellNoFood ==
    ((call.op = "__init__" \/ (call.op = "move" /\ call.branch = "ate"))
       /\ FreeCells = {})
      => food = None

\* C11: __init__ with height < 3 or width < 3 fails with InvalidDimension;
\* with height >= 3 and width >= 3 it returns a single-cell snake at
\* (height // 2, width // 2), direction Right, the debounce flag clear, score
\* 0 and game_over false.
InitChecksDimensions ==
    call.op = "__init__" =>
        IF height < 3 \/ width < 3
        THEN call.branch = "InvalidDimension"
        ELSE /\ snake = << <<height \div 2, width \div 2>> >>
             /\ direction = KEY_RIGHT
             /\ ~direction_changed
             /\ score = 0
             /\ ~game_over

\* C12: while game_over is false the body has at least one cell and holds no
\* cell twice.
BodyHasNoDuplicate ==
    ~game_over =>
        /\ Len(snake) >= 1
        /\ \A i, j \in 1..Len(snake) : snake[i] = snake[j] => i = j

\* C12 witness: a running game whose body of five cells or more lies next to
\* itself (the head is beside a cell that is not its neck).
BodyBesideItself ==
    /\ ~game_over
    /\ call.op = "move"
    /\ Len(snake) >= 5
    /\ \E d \in Directions : \E i \in 3..Len(snake) : Shifted(snake[1], d) = snake[i]

\* C13: change_direction leaves snake, food, score, base_speed and game_over
\* unchanged; snake, food, score and game_over change only in a step of move.
RequestFrame ==
    [][/\ IsRequest => UNCHANGED <<snake, food, score, base_speed, game_over>>
       /\ ~UNCHANGED <<snake, food, score, game_over>> => IsTick]_vars

\* C13 witness: a turn was accepted in a running game that has a body, a
\* score and food.
TurnAcceptedAfterEating ==
    /\ call.op = "change_direction" /\ call.branch = "accepted"
    /\ direction # tick_direction
    /\ Len(snake) >= 2
    /\ score > 0
    /\ food # None
    /\ ~game_over

\* C14: base_speed never drops below the floor of 40; a food-consumption tick
\* lowers it by 3 or leaves it unchanged, and no step raises it.
SpeedNeverBelowFloor ==
    [][/\ base_speed >= SpeedFloor
       /\ base_speed' >= SpeedFloor
       /\ base_speed' \in {base_speed, base_speed - SpeedStep}]_vars

\* C16: a tick calls place_food (returns from the food branch) exactly when its
\* new head is the food cell; a tick whose new head is not the food cell leaves
\* food unchanged; a tick that eats with a free interior cell left puts food on
\* an interior cell that is not in the grown body.
FoodPlacedOnEating ==
    [][IsTick =>
         /\ (call'.branch = "ate") <=> (TickHead = food)
         /\ TickHead # food => food' = food
         /\ (TickHead = food /\ FreeCells' # {}) =>
              /\ snake' = <<TickHead>> \o snake
              /\ food' \in FreeCells'
              /\ food' # TickHead
              /\ food' # snake[1]]_vars

\* C16 witness: a tick in a running game has eaten and food lies on a free cell.
FoodMovedAfterEating ==
    /\ call.op = "move" /\ call.branch = "ate" /\ call.running
    /\ food \in FreeCells
    /\ Len(snake) = 2

\* C17: a tick in a running state whose new head is the last cell of the body,
\* and no other body cell and not the food cell, does not set game_over and
\* moves the snake into that cell.
TailCellIsLegal ==
    [][(/\ IsTick /\ ~game_over
        /\ TickHead = snake[Len(snake)]
        /\ TickHead \notin Cells(pop(snake))
        /\ TickHead # food)
         => (~game_over' /\ snake' = <<TickHead>> \o pop(snake))]_vars

\* C17 as amended: such a tick sets game_over and leaves the body as it was.
TailCellEndsGame ==
    [][(/\ IsTick /\ ~game_over
        /\ TickHead = snake[Len(snake)]
        /\ TickHead \notin Cells(pop(snake))
        /\ TickHead # food)
         => (game_over' /\ snake' = snake)]_vars

\* C17 witness: a body of exactly four cells in a square has ticked into its
\* own tail cell, which held no food, and the game is over with the body in
\* place.
SquareTailHit ==
    /\ call.op = "move" /\ call.branch = "self" /\ call.running
    /\ game_over
    /\ Len(snake) = 4
    /\ Shifted(snake[1], tick_direction) = snake[4]
    /\ snake[4] \notin Cells(pop(snake))
    /\ food # snake[4]

\* C18: every cell of the body is in the interior, and so is food when set.
BodyAndFoodInInterior ==
    /\ \A i \in 1..Len(snake) : InInterior(snake[i])
    /\ food # None => InInterior(food)

\* C18 witness: a tick into the far wall (the last row or the last column)
\* has ended the game and the body of three cells or more is where it was.
FarWallHit ==
    /\ call.op = "move" /\ call.branch = "wall"
    /\ game_over
    /\ Len(snake) >= 3
    /\ \/ (tick_direction = KEY_DOWN /\ snake[1][1] = height - 2)
       \/ (tick_direction = KEY_RIGHT /\ snake[1][2] = width - 2)

\* C19: score = 10 * (length of the body - 1) in every state; a step changes
\* score only if it is a tick whose new head is the food cell, and then by +10.
ScoreCountsGrowth ==
    [][/\ score = FoodReward * (Len(snake) - 1)
       /\ score' = FoodReward * (Len(snake') - 1)
       /\ score' # score =>
            (IsTick /\ TickHead = food /\ score' = score + FoodReward)]_vars

\* C19 witness: after three cells eaten a plain move has left the score at 30.
ScoreKeptByPlainMove ==
    /\ call.op = "move" /\ call.branch = "moved"
    /\ Len(snake) = 4
    /\ score = 3 * FoodReward

\* C20: the direction a tick uses is never the opposite of the direction the
\* tick before it used, and in a running game a tick of a body of two cells
\* or more never computes the second cell of the body as its new head.
NoReversalBetweenTicks ==
    [][IsTick =>
         /\ direction # opposites(tick_direction)
         /\ (~game_over /\ Len(snake) >= 2) => TickHead # snake[2]]_vars

\* C20 witness: in a running game a body of two cells or more has ticked in a
\* direction other than that of the tick before (its head, neck and third cell
\* make a corner).
TickAfterTurn ==
    /\ call.op = "move" /\ call.branch = "ate"
    /\ ~game_over
    /\ Len(snake) >= 3
    /\ snake[3] # Shifted(Shifted(snake[1], opposites(tick_direction)),
                          opposites(tick_direction))

\* The clock test of a frame, from the state the frame's input left: elapsed
\* time against base_speed for Left and Right, base_speed * 1.8 for Up and Down.
Due ==
    IF direction \in {KEY_UP, KEY_DOWN}
    THEN 10 * elapsed >= 18 * base_speed
    ELSE elapsed >= base_speed

\* C15: in the game loop a move runs only in the clock step of a frame, which
\* ends the frame (at most one move a frame); it runs exactly when the elapsed
\* time has reached the current speed, and the elapsed time is then zero; a
\* frame that is not due changes nothing; a quit leaves the loop with no move.
OneTickPerDueFrame ==
    [][/\ IsTick => (pc = "clock" /\ Due /\ elapsed' = 0)
       /\ pc = "clock" => pc' = "input"
       /\ (pc = "clock" /\ Due) => IsTick
       /\ (pc = "clock" /\ ~Due) => (UNCHANGED game /\ elapsed' = elapsed)
       /\ call'.key = KEY_QUIT => (pc' = "over" /\ UNCHANGED <<game, elapsed>>)]_vars

\* C15 witness: a vertical tick of a body of two cells has run in the loop;
\* the elapsed time, a multiple of 10 ms, had passed 1.8 * 117 = 210.6 ms, and
\* it is zero now.
VerticalTickInLoop ==
    /\ pc = "input"
    /\ call.op = "move"
    /\ tick_direction \in {KEY_UP, KEY_DOWN}
    /\ Len(snake) = 2
    /\ base_speed = InitialBaseSpeed - SpeedStep
    /\ elapsed = 0
    /\ ~game_over

=============================================================================
